---------------------------- MODULE Spec2Model ----------------------------
(***************************************************************************)
(* Sequence-number accounting of the networking library:                   *)
(*   - SentPacketHistory (libraries/networking/src/SentPacketHistory.h):   *)
(*     the sender's ring of recently sent packets, keyed by a 16-bit       *)
(*     sequence number;                                                    *)
(*   - SequenceNumberStats (libraries/networking/src/                      *)
(*     SequenceNumberStats.cpp): the receiver's classification of incoming *)
(*     sequence numbers and its set of missing numbers.                    *)
(* Each object is modelled by its fields; each public method is one        *)
(* action.  `call` records the last method call with its arguments and     *)
(* `sentLog` the packetSent calls made so far: both are observations of    *)
(* the run, not fields of the program.                                     *)
(***************************************************************************)
EXTENDS Integers, Sequences, FiniteSets, TLC

VARIABLES
    \* SentPacketHistory
    sentPackets,            \* _sentPackets: slot -> packet
    newestPacketAt,         \* _newestPacketAt
    numExistingPackets,     \* _numExistingPackets
    newestSequenceNumber,   \* _newestSequenceNumber
    sentLog,                \* the packetSent calls so far, oldest first
    call,                   \* the last call on the history and what it returned
    \* SequenceNumberStats
    lastReceived,           \* _lastReceived
    missingSet,             \* _missingSet
    numReceived,            \* _numReceived
    numUnreasonable,        \* _numUnreasonable
    numEarly,               \* _numEarly
    numLate,                \* _numLate
    numLost,                \* _numLost
    numRecovered,           \* _numRecovered
    numDuplicate,           \* _numDuplicate
    lastSenderUUID,         \* _lastSenderUUID
    observed                \* the last sequenceNumberReceived call and its classification

historyVars == <<sentPackets, newestPacketAt, numExistingPackets, newestSequenceNumber>>
historyAll  == <<sentPackets, newestPacketAt, numExistingPackets, newestSequenceNumber,
                 sentLog, call>>
counters    == <<numReceived, numUnreasonable, numEarly, numLate, numLost,
                 numRecovered, numDuplicate>>
statsVars   == <<lastReceived, missingSet, numReceived, numUnreasonable, numEarly,
                 numLate, numLost, numRecovered, numDuplicate, lastSenderUUID>>
statsAll    == <<lastReceived, missingSet, numReceived, numUnreasonable, numEarly,
                 numLate, numLost, numRecovered, numDuplicate, lastSenderUUID, observed>>
vars        == <<sentPackets, newestPacketAt, numExistingPackets, newestSequenceNumber,
                 sentLog, call,
                 lastReceived, missingSet, numReceived, numUnreasonable, numEarly,
                 numLate, numLost, numRecovered, numDuplicate, lastSenderUUID, observed>>

(***************************************************************************)
(* Bounds of the model.                                                    *)
(***************************************************************************)
\* the largest history size (the constructor's `size`) that is explored
MaxSize == 3
\* the number of packetSent calls that are explored
MaxSent == 4
\* the number of sequenceNumberReceived calls that are explored
MaxObserved == 4
\* the value the model gives MAX_REASONABLE_SEQUENCE_GAP
MaxGap == 3
\* the number of packetSent and sequenceNumberReceived calls that are
\* explored when both objects are called
MaxCalls == 3

(***************************************************************************)
(* Program constants.                                                      *)
(***************************************************************************)
\* std::numeric_limits<uint16_t>::max()
UINT16_MAX == 65535
UINT16_RANGE == UINT16_MAX + 1
\* Set in SequenceNumberStats.h.  The code only compares against it; it is
\* given the small value MaxGap here, so that gaps of every kind and the
\* pruning of the missing set occur within a few calls.
MAX_REASONABLE_SEQUENCE_GAP == MaxGap

\* the conversion (uint16_t)x of an int
ToUint16(x) == x % UINT16_RANGE

\* packets (QByteArray); EmptyPacket is the default-constructed QByteArray
EmptyPacket == "empty"
Packets == {"a", "b"}
\* the null pointer getPacket returns on a miss
NULL == "NULL"


(***************************************************************************)
(* SentPacketHistory                                                       *)
(***************************************************************************)
\* _sentPackets.size()
Size == Cardinality(DOMAIN sentPackets)

\* SentPacketHistory::SentPacketHistory(int size)
NewHistory(size) ==
    /\ sentPackets = [i \in 0..(size - 1) |-> EmptyPacket]
    /\ newestPacketAt = 0
    /\ numExistingPackets = 0
    /\ newestSequenceNumber = UINT16_MAX
    /\ sentLog = <<>>
    /\ call = [op |-> "new", sequenceNumber |-> UINT16_MAX, ret |-> NULL]

\* a history of any size from 1 to MaxSize
HistoryInit == \E size \in 1..MaxSize : NewHistory(size)

\* uint16_t expectedSequenceNumber = _newestSequenceNumber + (uint16_t)1;
ExpectedSequenceNumber == ToUint16(newestSequenceNumber + 1)

\* NextPacketAt wrapping one slot too early
NextPacketAtEarlyWrap(at) == IF at >= Size - 2 THEN 0 ELSE at + 1

\* _newestPacketAt incremented without the wrap to slot 0
NextPacketAtNoWrap(at) == at + 1

\* _newestPacketAt incremented cyclically
NextPacketAt(at) == IF at = Size - 1 THEN 0 ELSE at + 1

\* NextNumExisting without the test against the size
NumExistingUnbounded(n) == n + 1

\* _numExistingPackets after one more packet
NextNumExisting(n) == IF n < Size THEN n + 1 ELSE n

\* packetSent returning after the report of an unexpected sequence number
PacketSentRejecting(sequenceNumber, packet) ==
    /\ Len(sentLog) < MaxSent
    /\ IF sequenceNumber # ExpectedSequenceNumber
       THEN UNCHANGED <<sentPackets, newestPacketAt, numExistingPackets,
                        newestSequenceNumber>>
       ELSE /\ newestSequenceNumber' = sequenceNumber
            /\ newestPacketAt' = IF newestPacketAt = Size - 1 THEN 0 ELSE newestPacketAt + 1
            /\ sentPackets' = [sentPackets EXCEPT ![newestPacketAt'] = packet]
            /\ numExistingPackets' =
                 IF numExistingPackets < Size THEN numExistingPackets + 1
                 ELSE numExistingPackets
    /\ sentLog' = Append(sentLog, [sequenceNumber |-> sequenceNumber,
                                   packet |-> packet,
                                   at |-> newestPacketAt',
                                   unexpected |-> sequenceNumber # ExpectedSequenceNumber])
    /\ call' = [op |-> "packetSent", sequenceNumber |-> sequenceNumber, ret |-> NULL]

\* SentPacketHistory::packetSent.  An unexpected sequence number is only
\* reported (qDebug); `unexpected` records that the report was made.
PacketSent(sequenceNumber, packet) ==
    /\ Len(sentLog) < MaxSent
    /\ newestSequenceNumber' = sequenceNumber
    /\ newestPacketAt' = NextPacketAt(newestPacketAt)
    /\ sentPackets' = [sentPackets EXCEPT ![NextPacketAt(newestPacketAt)] = packet]
    /\ numExistingPackets' = NextNumExisting(numExistingPackets)
    /\ sentLog' = Append(sentLog, [sequenceNumber |-> sequenceNumber,
                                   packet |-> packet,
                                   at |-> NextPacketAt(newestPacketAt),
                                   unexpected |-> sequenceNumber # ExpectedSequenceNumber])
    /\ call' = [op |-> "packetSent", sequenceNumber |-> sequenceNumber, ret |-> NULL]

\* seqDiff as the absolute difference, without the rollover correction
SeqDiffAbs(sequenceNumber) ==
    IF newestSequenceNumber - sequenceNumber < 0
    THEN sequenceNumber - newestSequenceNumber
    ELSE newestSequenceNumber - sequenceNumber

\* seqDiff of getPacket: how far back in the history sequenceNumber is
SeqDiff(sequenceNumber) ==
    LET seqDiff == newestSequenceNumber - sequenceNumber
    IN  IF seqDiff < 0 THEN seqDiff + UINT16_RANGE ELSE seqDiff

\* packetAt counted forward from the newest slot instead of back
PacketAtForward(seqDiff) == (newestPacketAt + seqDiff) % Size

\* packetAt of getPacket
PacketAt(seqDiff) ==
    LET packetAt == newestPacketAt - seqDiff
    IN  IF packetAt < 0 THEN packetAt + Size ELSE packetAt

\* SentPacketHistory::getPacket: the packet it points to, or NULL
GetPacket(sequenceNumber) ==
    IF SeqDiff(sequenceNumber) >= numExistingPackets
    THEN NULL
    ELSE sentPackets[PacketAt(SeqDiff(sequenceNumber))]

\* getPacket moving the newest position to the slot it found
GetPacketCallMoving(sequenceNumber) ==
    /\ call' = [op |-> "getPacket", sequenceNumber |-> sequenceNumber,
                ret |-> IF SeqDiff(sequenceNumber) >= numExistingPackets THEN NULL
                        ELSE sentPackets[PacketAt(SeqDiff(sequenceNumber))]]
    /\ newestPacketAt' =
         IF SeqDiff(sequenceNumber) >= numExistingPackets THEN newestPacketAt
         ELSE PacketAt(SeqDiff(sequenceNumber))
    /\ UNCHANGED <<sentPackets, numExistingPackets, newestSequenceNumber, sentLog>>

\* a call of getPacket (a const method)
GetPacketCall(sequenceNumber) ==
    /\ call' = [op |-> "getPacket", sequenceNumber |-> sequenceNumber,
                ret |-> GetPacket(sequenceNumber)]
    /\ UNCHANGED <<sentPackets, newestPacketAt, numExistingPackets,
                   newestSequenceNumber, sentLog>>

\* The sequence numbers packetSent is explored with: the expected one, a
\* repeat of the newest, a skip of one, and the one before the newest.
SentInputs ==
    { ExpectedSequenceNumber, newestSequenceNumber,
      ToUint16(newestSequenceNumber + 2),
      ToUint16(newestSequenceNumber - 1 + UINT16_RANGE) }

\* The sequence numbers getPacket is explored with: the newest, the one
\* before it, the one Size back (the first that is too old) and the one
\* ahead of the newest.
GetInputs ==
    { newestSequenceNumber,
      ToUint16(newestSequenceNumber - 1 + UINT16_RANGE),
      ToUint16(newestSequenceNumber - Size + UINT16_RANGE),
      ExpectedSequenceNumber }

\* The sequence numbers the properties look up in each state: all within
\* MaxSize + 1 of the newest on either side, every number that was sent,
\* both ends of the range and its middle.
Probes ==
    { ToUint16(newestSequenceNumber + d + UINT16_RANGE) :
          d \in (0 - MaxSize - 1)..(MaxSize + 1) }
        \cup { sentLog[i].sequenceNumber : i \in 1..Len(sentLog) }
        \cup { 0, UINT16_MAX, UINT16_RANGE \div 2 }

HistoryNext ==
    \/ \E s \in SentInputs, p \in Packets :
          PacketSent(s, p) /\ UNCHANGED statsAll
    \/ \E s \in GetInputs :
          GetPacketCall(s) /\ UNCHANGED statsAll

(***************************************************************************)
(* SequenceNumberStats.  The methods are written as functions of the       *)
(* object's fields, held in a record `st`; the actions apply them to the   *)
(* variables.                                                              *)
(***************************************************************************)
\* sender identities (QUuid); NullUUID is the default-constructed QUuid
NullUUID == "null"
UUIDs == {NullUUID, "X", "Y"}

\* the fields of the object
Stats ==
    [ lastReceived |-> lastReceived, missingSet |-> missingSet,
      numReceived |-> numReceived, numUnreasonable |-> numUnreasonable,
      numEarly |-> numEarly, numLate |-> numLate, numLost |-> numLost,
      numRecovered |-> numRecovered, numDuplicate |-> numDuplicate,
      lastSenderUUID |-> lastSenderUUID ]

\* SequenceNumberStats::SequenceNumberStats()
StatsInit ==
    /\ lastReceived = UINT16_MAX
    /\ missingSet = {}
    /\ numReceived = 0
    /\ numUnreasonable = 0
    /\ numEarly = 0
    /\ numLate = 0
    /\ numLost = 0
    /\ numRecovered = 0
    /\ numDuplicate = 0
    /\ lastSenderUUID = NullUUID
    /\ observed = [n |-> 0, op |-> "new", incoming |-> UINT16_MAX,
                   senderUUID |-> NullUUID, expected |-> UINT16_MAX,
                   kind |-> "none", pruned |-> FALSE,
                   prevSenderUUID |-> NullUUID, prevReceived |-> 0,
                   inOrder |-> TRUE]

\* the fields of a tracker as constructed, holding sender senderUUID
NewStats(senderUUID) ==
    [ lastReceived |-> UINT16_MAX, missingSet |-> {},
      numReceived |-> 0, numUnreasonable |-> 0, numEarly |-> 0, numLate |-> 0,
      numLost |-> 0, numRecovered |-> 0, numDuplicate |-> 0,
      lastSenderUUID |-> senderUUID ]

\* SequenceNumberStats::reset()
ResetStats(st) ==
    [st EXCEPT !.missingSet = {}, !.numReceived = 0, !.numUnreasonable = 0,
               !.numEarly = 0, !.numLate = 0, !.numLost = 0,
               !.numRecovered = 0, !.numDuplicate = 0]

\* the sender check taking the new sender without the reset
SenderCheckKeepingStats(st, senderUUID) ==
    IF senderUUID # st.lastSenderUUID
    THEN [st EXCEPT !.lastSenderUUID = senderUUID]
    ELSE st

\* the sender check that opens sequenceNumberReceived
SenderCheck(st, senderUUID) ==
    IF senderUUID # st.lastSenderUUID
    THEN [ResetStats(st) EXCEPT !.lastSenderUUID = senderUUID]
    ELSE st

\* expected as the number after _lastReceived also for the first packet
ExpectedAlwaysNext(st, incoming) == (st.lastReceived + 1) % UINT16_RANGE

\* expected without the conversion of the sum to quint16
ExpectedNoWrap(st, incoming) ==
    IF st.numReceived > 0 THEN st.lastReceived + 1 ELSE incoming

\* quint16 expected = _numReceived > 0 ? _lastReceived + (quint16)1 : incoming;
Expected(st, incoming) ==
    IF st.numReceived > 0 THEN ToUint16(st.lastReceived + 1) ELSE incoming

Abs(x) == IF x < 0 THEN 0 - x ELSE x

\* the rollover test taking one gap more as a rollover
RolloverLikelyWide(absGap) == absGap >= UINT16_RANGE - MAX_REASONABLE_SEQUENCE_GAP - 1

\* the rollover test taking one gap less as a rollover
RolloverLikelyStrict(absGap) == absGap > UINT16_RANGE - MAX_REASONABLE_SEQUENCE_GAP

\* whether the gap counts as a rollover between incoming and expected
RolloverLikely(absGap) == absGap >= UINT16_RANGE - MAX_REASONABLE_SEQUENCE_GAP

\* the unreasonable test accepting a gap of MAX_REASONABLE_SEQUENCE_GAP + 1
UnreasonableLax(absGap) ==
    /\ ~(absGap >= UINT16_RANGE - MAX_REASONABLE_SEQUENCE_GAP)
    /\ absGap > MAX_REASONABLE_SEQUENCE_GAP + 1

\* whether the packet is ignored because its gap is unreasonable
Unreasonable(absGap) ==
    /\ ~RolloverLikely(absGap)
    /\ absGap > MAX_REASONABLE_SEQUENCE_GAP

\* incomingInt after the rollover correction
IncomingInt(incoming, expected) ==
    IF RolloverLikely(Abs(incoming - expected)) /\ incoming > expected
    THEN incoming - UINT16_RANGE
    ELSE incoming

\* expectedInt left as it is when the rollover lies before incoming
ExpectedIntUncorrected(incoming, expected) == expected

\* expectedInt after the rollover correction
ExpectedInt(incoming, expected) ==
    IF RolloverLikely(Abs(incoming - expected)) /\ ~(incoming > expected)
    THEN expected - UINT16_RANGE
    ELSE expected

\* incomingInt - expectedInt after the rollover correction: the gap the
\* early and late branches are chosen by
SignedGap(incoming, expected) ==
    IncomingInt(incoming, expected) - ExpectedInt(incoming, expected)

\* the numbers strictly between expected and incoming
SkippedAfterExpected(expectedInt, incomingInt) ==
    { ToUint16(IF missingInt < 0 THEN missingInt + UINT16_RANGE ELSE missingInt) :
        missingInt \in (expectedInt + 1)..(incomingInt - 1) }

\* the skipped numbers without the conversion of the negative ones
SkippedRaw(expectedInt, incomingInt) == expectedInt..(incomingInt - 1)

\* the sequence numbers the early branch inserts into _missingSet
Skipped(expectedInt, incomingInt) ==
    { ToUint16(IF missingInt < 0 THEN missingInt + UINT16_RANGE ELSE missingInt) :
        missingInt \in expectedInt..(incomingInt - 1) }

\* the erase condition of the branch without rollover, taken in both cases
ErasedIgnoringRollover(missing, last) ==
    missing > last \/ missing < last - MAX_REASONABLE_SEQUENCE_GAP

\* whether pruneMissingSet erases `missing`
Erased(missing, last) ==
    LET cutoff == last - MAX_REASONABLE_SEQUENCE_GAP
    IN  IF cutoff >= 0
        THEN missing > last \/ missing < ToUint16(cutoff)
        ELSE missing > last /\ missing < ToUint16(cutoff + UINT16_RANGE)

\* pruneMissingSet taking the numbers it erases out of _numLost
PruneUncountingLost(st) ==
    LET kept == { m \in st.missingSet :
                    ~(IF st.lastReceived - MAX_REASONABLE_SEQUENCE_GAP >= 0
                      THEN m > st.lastReceived \/
                           m < st.lastReceived - MAX_REASONABLE_SEQUENCE_GAP
                      ELSE m > st.lastReceived /\
                           m < st.lastReceived - MAX_REASONABLE_SEQUENCE_GAP
                                 + UINT16_RANGE) }
    IN  [st EXCEPT !.missingSet = kept,
                   !.numLost = @ - Cardinality(st.missingSet \ kept)]

\* SequenceNumberStats::pruneMissingSet
PruneMissingSet(st) ==
    [st EXCEPT !.missingSet = { m \in st.missingSet : ~Erased(m, st.lastReceived) }]

\* whether the early branch prunes
PruneNeeded(st) == Cardinality(st.missingSet) > MAX_REASONABLE_SEQUENCE_GAP

\* the early branch
Early(st, incoming, expectedInt, incomingInt) ==
    LET added == [st EXCEPT !.numEarly = @ + 1,
                            !.numLost = @ + (incomingInt - expectedInt),
                            !.lastReceived = incoming,
                            !.missingSet = @ \cup Skipped(expectedInt, incomingInt)]
    IN  IF PruneNeeded(added) THEN PruneMissingSet(added) ELSE added

\* the late branch without the decrement of _numLost
LateKeepingLost(st, incoming) ==
    IF incoming \in st.missingSet
    THEN [st EXCEPT !.numLate = @ + 1, !.missingSet = @ \ {incoming},
                    !.numRecovered = @ + 1]
    ELSE [st EXCEPT !.numLate = @ + 1, !.numDuplicate = @ + 1]

\* the late branch counting every late packet as recovered
LateAlwaysRecovering(st, incoming) ==
    [st EXCEPT !.numLate = @ + 1, !.missingSet = @ \ {incoming},
               !.numLost = @ - 1, !.numRecovered = @ + 1]

\* the late branch leaving a recovered number in the missing set
LateNotRemoving(st, incoming) ==
    IF incoming \in st.missingSet
    THEN [st EXCEPT !.numLate = @ + 1, !.numLost = @ - 1, !.numRecovered = @ + 1]
    ELSE [st EXCEPT !.numLate = @ + 1, !.numDuplicate = @ + 1]

\* the late branch without the increment of _numLate
LateUncounted(st, incoming) ==
    IF incoming \in st.missingSet
    THEN [st EXCEPT !.missingSet = @ \ {incoming},
                    !.numLost = @ - 1, !.numRecovered = @ + 1]
    ELSE [st EXCEPT !.numDuplicate = @ + 1]

\* the late branch
Late(st, incoming) ==
    IF incoming \in st.missingSet
    THEN [st EXCEPT !.numLate = @ + 1, !.missingSet = @ \ {incoming},
                    !.numLost = @ - 1, !.numRecovered = @ + 1]
    ELSE [st EXCEPT !.numLate = @ + 1, !.numDuplicate = @ + 1]

\* sequenceNumberReceived after the sender check
Received(st, incoming) ==
    LET expected == Expected(st, incoming)
        counted  == [st EXCEPT !.numReceived = @ + 1]
        incomingInt == IncomingInt(incoming, expected)
        expectedInt == ExpectedInt(incoming, expected)
    IN  IF incoming = expected
        THEN [counted EXCEPT !.lastReceived = incoming]
        ELSE IF Unreasonable(Abs(incoming - expected))
        THEN [counted EXCEPT !.numUnreasonable = @ + 1]
        ELSE IF incomingInt > expectedInt
        THEN Early(counted, incoming, expectedInt, incomingInt)
        ELSE Late(counted, incoming)

\* SequenceNumberStats::sequenceNumberReceived
SequenceNumberReceived(st, incoming, senderUUID) ==
    Received(SenderCheck(st, senderUUID), incoming)

\* the branch sequenceNumberReceived takes
Kind(st, incoming) ==
    LET expected == Expected(st, incoming)
    IN  IF incoming = expected THEN "onTime"
        ELSE IF Unreasonable(Abs(incoming - expected)) THEN "unreasonable"
        ELSE IF IncomingInt(incoming, expected) > ExpectedInt(incoming, expected)
        THEN "early"
        ELSE IF incoming \in st.missingSet THEN "recovered"
        ELSE "duplicate"

\* the variables take the fields of `st`
SetStats(st) ==
    /\ lastReceived' = st.lastReceived
    /\ missingSet' = st.missingSet
    /\ numReceived' = st.numReceived
    /\ numUnreasonable' = st.numUnreasonable
    /\ numEarly' = st.numEarly
    /\ numLate' = st.numLate
    /\ numLost' = st.numLost
    /\ numRecovered' = st.numRecovered
    /\ numDuplicate' = st.numDuplicate
    /\ lastSenderUUID' = st.lastSenderUUID

\* A call of sequenceNumberReceived.  `observed` takes the arguments, the
\* branch taken, the sender and _numReceived from before the call, and
\* whether every call so far came from one sender with each number the next
\* of the one before (a call of reset in between ends that).
SequenceNumberReceivedCall(incoming, senderUUID) ==
    /\ SetStats(SequenceNumberReceived(Stats, incoming, senderUUID))
    /\ observed' =
         LET checked == SenderCheck(Stats, senderUUID)
             kind == Kind(checked, incoming)
         IN  [n |-> observed.n + 1, op |-> "received", incoming |-> incoming,
              senderUUID |-> senderUUID,
              expected |-> Expected(checked, incoming),
              kind |-> kind,
              pruned |-> kind = "early" /\
                         Cardinality(checked.missingSet \cup
                             Skipped(ExpectedInt(incoming, Expected(checked, incoming)),
                                     IncomingInt(incoming, Expected(checked, incoming))))
                           > MAX_REASONABLE_SEQUENCE_GAP,
              prevSenderUUID |-> lastSenderUUID,
              prevReceived |-> numReceived,
              inOrder |-> /\ observed.inOrder
                          /\ \/ observed.n = 0
                             \/ /\ senderUUID = observed.senderUUID
                                /\ incoming = (observed.incoming + 1) % UINT16_RANGE]

\* one of the MaxObserved calls of sequenceNumberReceived that are explored
Observe(incoming, senderUUID) ==
    /\ observed.n < MaxObserved
    /\ SequenceNumberReceivedCall(incoming, senderUUID)

\* a call of reset
ResetCall ==
    /\ SetStats(ResetStats(Stats))
    /\ observed' = [observed EXCEPT !.op = "reset", !.kind = "none", !.pruned = FALSE,
                                    !.inOrder = FALSE]

\* The offsets from the expected number that incoming numbers are explored
\* with: on time, early by 1, 2, the largest reasonable gap and one more,
\* late by the same.
Offsets ==
    { 0, 1, 2, MAX_REASONABLE_SEQUENCE_GAP, MAX_REASONABLE_SEQUENCE_GAP + 1,
      0 - 1, 0 - 2, 0 - MAX_REASONABLE_SEQUENCE_GAP,
      0 - MAX_REASONABLE_SEQUENCE_GAP - 1 }

ObservedInputs == { ToUint16(lastReceived + 1 + e + UINT16_RANGE) : e \in Offsets }

\* the senders packets are explored with: the last one and one other
Senders == { lastSenderUUID, IF lastSenderUUID = "X" THEN "Y" ELSE "X" }

StatsNext ==
    \/ \E s \in ObservedInputs, u \in Senders :
          Observe(s, u) /\ UNCHANGED historyAll
    \/ ResetCall /\ UNCHANGED historyAll

(***************************************************************************)
(* Specifications: each object alone, and the two together.                *)
(***************************************************************************)
Init == HistoryInit /\ StatsInit

Next == HistoryNext \/ StatsNext

Spec == Init /\ [][Next]_vars

\* the history alone, beside a tracker that is never called
HistorySpec == Init /\ [][HistoryNext]_vars

\* the tracker alone, beside a history of size 1 that is never called
StatsOnlyInit == NewHistory(1) /\ StatsInit

StatsSpec == StatsOnlyInit /\ [][StatsNext]_vars

(***************************************************************************)
(* The two objects side by side, for a few calls: MaxCalls calls of        *)
(* packetSent and sequenceNumberReceived together, in any order, with      *)
(* calls of getPacket and reset in between.                                *)
(***************************************************************************)
\* the number of packetSent and sequenceNumberReceived calls together
CallsMade == Len(sentLog) + observed.n

\* packetSent is called with the expected number or one that skips one
JointSentInputs == { ExpectedSequenceNumber, ToUint16(newestSequenceNumber + 2) }

\* getPacket is called with the newest number or the one ahead of it (a miss)
JointGetInputs == { newestSequenceNumber, ExpectedSequenceNumber }

\* sequenceNumberReceived is called with the expected number, the one
\* after it, the one two before it, or one beyond the largest reasonable gap
JointObservedInputs ==
    { ToUint16(lastReceived + 1 + e + UINT16_RANGE) :
        e \in { 0, 1, 0 - 2, MAX_REASONABLE_SEQUENCE_GAP + 1 } }

JointNext ==
    \/ \E s \in JointSentInputs, p \in Packets :
          CallsMade < MaxCalls /\ PacketSent(s, p) /\ UNCHANGED statsAll
    \/ \E s \in JointGetInputs :
          GetPacketCall(s) /\ UNCHANGED statsAll
    \/ \E s \in JointObservedInputs, u \in Senders :
          CallsMade < MaxCalls /\ Observe(s, u) /\ UNCHANGED historyAll
    \/ ResetCall /\ UNCHANGED historyAll

JointSpec == Init /\ [][JointNext]_vars

(***************************************************************************)
(* The tracker on one long stream: more calls than the ring has numbers.   *)
(* The sender stays the same; each packet is on time, or, while            *)
(* _lastReceived is 0 or 1, skips one number or                            *)
(* MAX_REASONABLE_SEQUENCE_GAP numbers.                                    *)
(***************************************************************************)
\* the number of calls of the long stream: once around the ring and MaxObserved more
LongRunCalls == UINT16_RANGE + MaxObserved

LongRunInputs ==
    { ToUint16(lastReceived + 1) } \cup
    ( IF lastReceived < 2
      THEN { ToUint16(lastReceived + 2),
             ToUint16(lastReceived + 1 + MAX_REASONABLE_SEQUENCE_GAP) }
      ELSE {} )

LongRunNext ==
    \E s \in LongRunInputs :
        /\ observed.n < LongRunCalls
        /\ SequenceNumberReceivedCall(s, lastSenderUUID)
        /\ UNCHANGED historyAll

LongRunInit == NewHistory(1) /\ StatsInit

LongRunSpec == LongRunInit /\ [][LongRunNext]_vars

(***************************************************************************)
(* Properties of SentPacketHistory                                         *)
(***************************************************************************)
\* how far sequence number s is behind the newest one, on the ring
RingDistance(newest, s) == (newest - s + UINT16_RANGE) % UINT16_RANGE

\* the step is a call of packetSent
IsPacketSent == Len(sentLog') = Len(sentLog) + 1

\* the step is a call of getPacket
IsGetPacket == sentLog' = sentLog /\ call'.op = "getPacket" /\ call' # call

\* the packetSent calls so far were made with consecutive sequence numbers
Consecutive ==
    \A i \in 2..Len(sentLog) :
        sentLog[i].sequenceNumber = (sentLog[i - 1].sequenceNumber + 1) % UINT16_RANGE

\* the calls, among the last min(n, Size), that were made with sequence number s
LiveCalls(s) ==
    { i \in 1..Len(sentLog) :
        i > Len(sentLog) - Size /\ sentLog[i].sequenceNumber = s }

\* C1: after a run of packetSent calls with consecutive sequence numbers
\* (from any start, also across 65535 -> 0), getPacket(s) returns the packet
\* that was passed with s for each of the last min(n, Size) sequence numbers
\* and NULL for every other sequence number.
C1_RoundTrip ==
    Consecutive =>
        \A s \in Probes :
            IF LiveCalls(s) # {}
            THEN \A i \in LiveCalls(s) : GetPacket(s) = sentLog[i].packet
            ELSE GetPacket(s) = NULL

\* C1 witness: a consecutive run 65535, 0, ... longer than the history, and
\* a lookup that found a packet
C1_Witness ==
    /\ Consecutive
    /\ Len(sentLog) > Size
    /\ Size >= 2
    /\ \E i \in 1..(Len(sentLog) - 1) :
          sentLog[i].sequenceNumber = UINT16_MAX /\ sentLog[i + 1].sequenceNumber = 0
    /\ call.op = "getPacket"
    /\ call.ret \in Packets

\* C2: in every state, getPacket of the number k behind the newest returns
\* a packet if and only if k < numExistingPackets; a new history returns
\* NULL for every number.
C2_RetrievableIffRecent ==
    \A s \in Probes :
        (GetPacket(s) # NULL) <=> (RingDistance(newestSequenceNumber, s) < numExistingPackets)

\* C2 witness: a lookup of the oldest number still held found a packet
C2_Witness ==
    /\ call.op = "getPacket"
    /\ numExistingPackets >= 2
    /\ RingDistance(newestSequenceNumber, call.sequenceNumber) = numExistingPackets - 1
    /\ call.ret # NULL

\* C3: numExistingPackets stays within 0..Size; a packetSent adds exactly 1
\* to it while it is below Size and leaves it at Size after that; no step
\* decreases it.
C3_CountSaturates ==
    [][ /\ numExistingPackets \in 0..Size
        /\ numExistingPackets' \in 0..Size
        /\ numExistingPackets' >= numExistingPackets
        /\ IsPacketSent =>
              numExistingPackets' =
                  IF numExistingPackets < Size THEN numExistingPackets + 1 ELSE Size
      ]_vars

\* C3 witness: a packetSent on a full history
C3_Witness ==
    /\ call.op = "packetSent"
    /\ Len(sentLog) > Size
    /\ numExistingPackets = Size

\* C4: once the history is full, a packetSent writes the slot that was
\* written Size calls earlier (no later call wrote it: it holds the oldest
\* packet) and leaves the other slots as they were; a getPacket moves
\* neither the slots nor the place of the next write.
C4_EvictsOldest ==
    [][ /\ (IsPacketSent /\ numExistingPackets = Size) =>
              /\ newestPacketAt' = sentLog[Len(sentLog) - Size + 1].at
              /\ \A i \in (Len(sentLog) - Size + 2)..Len(sentLog) :
                    sentLog[i].at # newestPacketAt'
              /\ sentPackets'[newestPacketAt'] = sentLog'[Len(sentLog')].packet
              /\ \A j \in DOMAIN sentPackets :
                    j # newestPacketAt' => sentPackets'[j] = sentPackets[j]
        /\ IsGetPacket =>
              /\ sentPackets' = sentPackets
              /\ NextPacketAt(newestPacketAt') = NextPacketAt(newestPacketAt)
      ]_vars

\* C4 witness: a packetSent that evicted from a full history of two or more slots
C4_Witness ==
    /\ call.op = "packetSent"
    /\ Size >= 2
    /\ Len(sentLog) = Size + 1

\* C5: a getPacket call, hit or miss, leaves _sentPackets, _newestPacketAt,
\* _numExistingPackets and _newestSequenceNumber as they were.
C5_GetPacketReadOnly ==
    [][ IsGetPacket => UNCHANGED historyVars ]_vars

\* C5 witness: a lookup that found a packet that is not in the newest slot
C5_Witness ==
    /\ call.op = "getPacket"
    /\ call.ret \in Packets
    /\ call.sequenceNumber # newestSequenceNumber

\* C6: a packetSent with an unexpected sequence number makes the update a
\* call with the expected one makes: the write position advances by one
\* cyclically, that slot takes the packet, the count goes up to at most
\* Size, and the newest sequence number becomes the one passed.
C6_UnexpectedAbsorbed ==
    [][ (IsPacketSent /\ call'.sequenceNumber # (newestSequenceNumber + 1) % UINT16_RANGE) =>
            /\ newestPacketAt' = (newestPacketAt + 1) % Size
            /\ sentPackets' =
                 [sentPackets EXCEPT ![(newestPacketAt + 1) % Size] =
                                          sentLog'[Len(sentLog')].packet]
            /\ numExistingPackets' =
                 IF numExistingPackets + 1 <= Size THEN numExistingPackets + 1 ELSE Size
            /\ newestSequenceNumber' = call'.sequenceNumber
      ]_vars

\* C6 witness: an unexpected sequence number was passed to a history that
\* already held packets
C6_Witness ==
    /\ call.op = "packetSent"
    /\ Len(sentLog) >= 2
    /\ sentLog[Len(sentLog)].unexpected
    /\ newestSequenceNumber = sentLog[Len(sentLog)].sequenceNumber

\* C7: whenever getPacket(s) returns a packet, that packet was passed to a
\* packetSent call with sequence number s (so it returns NULL for a number
\* that was never passed).
C7_OnlySentPackets ==
    \A s \in Probes :
        GetPacket(s) # NULL =>
            \E i \in 1..Len(sentLog) :
                sentLog[i].sequenceNumber = s /\ sentLog[i].packet = GetPacket(s)

(***************************************************************************)
(* Properties of SequenceNumberStats                                       *)
(***************************************************************************)
\* the step is a call of sequenceNumberReceived
IsReceived == observed'.n = observed.n + 1

\* the step is a call of sequenceNumberReceived by the sender of the last
\* call, on a tracker that has received before: it expects the number after
\* _lastReceived
IsReceivedInStream ==
    /\ IsReceived
    /\ observed'.senderUUID = lastSenderUUID
    /\ numReceived > 0

\* the number after s on the ring
NextSeq(s) == (s + 1) % UINT16_RANGE

\* how far the incoming number of the step is ahead of the expected one, on the ring
StepsAhead == (observed'.incoming - NextSeq(lastReceived) + UINT16_RANGE) % UINT16_RANGE

\* how far the incoming number of the step is behind the expected one, on the ring
StepsBehind == (NextSeq(lastReceived) - observed'.incoming + UINT16_RANGE) % UINT16_RANGE

\* C8: an on-time packet (same sender, received > 0, incoming the number
\* after _lastReceived, 0 after 65535) adds 1 to _numReceived, makes
\* _lastReceived the incoming number and leaves the other six counters and
\* the missing set unchanged.
C8_OnTime ==
    [][ (IsReceivedInStream /\ observed'.incoming = NextSeq(lastReceived)) =>
            /\ numReceived' = numReceived + 1
            /\ lastReceived' = observed'.incoming
            /\ UNCHANGED <<numUnreasonable, numEarly, numLate, numLost,
                           numRecovered, numDuplicate, missingSet>>
      ]_vars

\* C8 witness: 0 arrived on time after 65535 while numbers were missing
C8_Witness ==
    /\ observed.op = "received"
    /\ observed.kind = "onTime"
    /\ observed.incoming = 0
    /\ numReceived >= 2
    /\ missingSet # {}

\* C9: an early packet, g steps ahead of the expected number with
\* 1 <= g <= MAX_REASONABLE_SEQUENCE_GAP, adds 1 to _numEarly and g to
\* _numLost, makes _lastReceived the incoming number and adds to the missing
\* set the g numbers expected, ..., incoming - 1 of the ring and no other;
\* _numLate, _numRecovered, _numDuplicate and _numUnreasonable are unchanged.
C9_Early ==
    [][ (IsReceivedInStream /\ StepsAhead \in 1..MAX_REASONABLE_SEQUENCE_GAP) =>
            LET skipped == { (NextSeq(lastReceived) + j) % UINT16_RANGE :
                                 j \in 0..(StepsAhead - 1) }
            IN  /\ numEarly' = numEarly + 1
                /\ numLost' = numLost + StepsAhead
                /\ lastReceived' = observed'.incoming
                /\ Cardinality(skipped) = StepsAhead
                /\ skipped \subseteq missingSet'
                /\ missingSet' \subseteq (missingSet \cup skipped)
                /\ UNCHANGED <<numLate, numRecovered, numDuplicate, numUnreasonable>>
      ]_vars

\* C9 witness: an early packet whose skipped numbers run across 65535 -> 0
C9_Witness ==
    /\ observed.op = "received"
    /\ observed.kind = "early"
    /\ observed.incoming < observed.expected
    /\ {UINT16_MAX, 0} \subseteq missingSet
    /\ numLost >= 2

\* C10: a late packet, behind the expected number by at most
\* MAX_REASONABLE_SEQUENCE_GAP, that is in the missing set is removed from
\* it, with _numLost one less and _numRecovered and _numLate one more;
\* _lastReceived, _numEarly, _numDuplicate, _numUnreasonable and the rest of
\* the missing set are unchanged.
C10_LateRecovered ==
    [][ ( /\ IsReceivedInStream
          /\ StepsBehind \in 1..MAX_REASONABLE_SEQUENCE_GAP
          /\ observed'.incoming \in missingSet ) =>
            /\ missingSet' = missingSet \ {observed'.incoming}
            /\ numLost' = numLost - 1
            /\ numRecovered' = numRecovered + 1
            /\ numLate' = numLate + 1
            /\ UNCHANGED <<lastReceived, numEarly, numDuplicate, numUnreasonable>>
      ]_vars

\* C10 witness: a missing number from before the rollover arrived late and
\* another number is still missing
C10_Witness ==
    /\ observed.op = "received"
    /\ observed.kind = "recovered"
    /\ observed.incoming > observed.expected
    /\ numRecovered >= 1
    /\ missingSet # {}

\* the sender of the step's packet is not the sender of the last call
SenderChanges == observed'.senderUUID # lastSenderUUID

\* the number the call of the step expects: the one after _lastReceived, or
\* the incoming one when nothing was received since construction or reset
StepExpected ==
    IF ~SenderChanges /\ numReceived > 0 THEN NextSeq(lastReceived) ELSE observed'.incoming

\* the ring offset of the incoming number of the step from the expected one
StepOffset == (observed'.incoming - StepExpected + UINT16_RANGE) % UINT16_RANGE

\* the numbers expected, ..., incoming - 1 of the ring that an early step skips
StepSkipped ==
    { (NextSeq(lastReceived) + j) % UINT16_RANGE : j \in 0..(StepsAhead - 1) }

\* the step is an early call after which the missing set, with the skipped
\* numbers added, exceeds MAX_REASONABLE_SEQUENCE_GAP, so that it is pruned
IsPruningStep ==
    /\ IsReceivedInStream
    /\ StepsAhead \in 1..MAX_REASONABLE_SEQUENCE_GAP
    /\ Cardinality(missingSet \cup StepSkipped) > MAX_REASONABLE_SEQUENCE_GAP

\* C11: a late packet, behind the expected number by at most
\* MAX_REASONABLE_SEQUENCE_GAP, that is not in the missing set (a repeat of
\* _lastReceived is one) adds 1 to _numLate and to _numDuplicate and leaves
\* _numLost, _numRecovered, _numEarly, _numUnreasonable, the missing set and
\* _lastReceived unchanged.
C11_LateDuplicate ==
    [][ ( /\ IsReceivedInStream
          /\ StepsBehind \in 1..MAX_REASONABLE_SEQUENCE_GAP
          /\ observed'.incoming \notin missingSet ) =>
            /\ numLate' = numLate + 1
            /\ numDuplicate' = numDuplicate + 1
            /\ UNCHANGED <<numLost, numRecovered, numEarly, numUnreasonable,
                           missingSet, lastReceived>>
      ]_vars

\* C11 witness: _lastReceived arrived again while numbers were missing
C11_Witness ==
    /\ observed.op = "received"
    /\ observed.kind = "duplicate"
    /\ observed.incoming = lastReceived
    /\ numDuplicate >= 1
    /\ missingSet # {}

\* C12: a packet whose distance from the expected number, on the ring, is
\* more than MAX_REASONABLE_SEQUENCE_GAP in both directions adds exactly 1
\* to _numUnreasonable and leaves _lastReceived, the missing set, _numEarly,
\* _numLate, _numLost, _numRecovered and _numDuplicate unchanged.
C12_Unreasonable ==
    [][ ( /\ IsReceivedInStream
          /\ StepsAhead > MAX_REASONABLE_SEQUENCE_GAP
          /\ StepsBehind > MAX_REASONABLE_SEQUENCE_GAP ) =>
            /\ numUnreasonable' = numUnreasonable + 1
            /\ UNCHANGED <<lastReceived, missingSet, numEarly, numLate, numLost,
                           numRecovered, numDuplicate>>
      ]_vars

\* C12 witness: a packet from MAX_REASONABLE_SEQUENCE_GAP + 1 before the
\* expected number, on the other side of the rollover, was ignored while
\* numbers were missing
C12_Witness ==
    /\ observed.op = "received"
    /\ observed.kind = "unreasonable"
    /\ observed.incoming > observed.expected + MAX_REASONABLE_SEQUENCE_GAP + 1
    /\ numUnreasonable >= 1
    /\ missingSet # {}

\* C13 as stated: a packet with an unreasonable gap changes nothing but
\* _numUnreasonable; _numReceived and every other field are as before.
C13_OnlyUnreasonableChanges ==
    [][ ( /\ IsReceivedInStream
          /\ StepsAhead > MAX_REASONABLE_SEQUENCE_GAP
          /\ StepsBehind > MAX_REASONABLE_SEQUENCE_GAP ) =>
            /\ numUnreasonable' = numUnreasonable + 1
            /\ UNCHANGED <<numReceived, numEarly, numLate, numLost, numRecovered,
                           numDuplicate, lastReceived, missingSet, lastSenderUUID>>
      ]_vars

\* C13 as amended: a packet with an unreasonable gap adds 1 to
\* _numUnreasonable and 1 to _numReceived and changes no other field.
C13_UnreasonableCounted ==
    [][ ( /\ IsReceivedInStream
          /\ StepsAhead > MAX_REASONABLE_SEQUENCE_GAP
          /\ StepsBehind > MAX_REASONABLE_SEQUENCE_GAP ) =>
            /\ numUnreasonable' = numUnreasonable + 1
            /\ numReceived' = numReceived + 1
            /\ UNCHANGED <<numEarly, numLate, numLost, numRecovered,
                           numDuplicate, lastReceived, missingSet, lastSenderUUID>>
      ]_vars

\* C13 witness: a packet MAX_REASONABLE_SEQUENCE_GAP + 1 ahead of the
\* expected number was ignored and counted as received
C13_Witness ==
    /\ observed.op = "received"
    /\ observed.kind = "unreasonable"
    /\ observed.incoming = observed.expected + MAX_REASONABLE_SEQUENCE_GAP + 1
    /\ numReceived = observed.prevReceived + 1
    /\ numReceived >= 3

\* C14: a packet from a sender other than the stored one is taken as the
\* first of a new stream, whatever the state before: afterwards the stored
\* sender is the new one, _numReceived is 1, the other six counters are 0,
\* the missing set is empty and _lastReceived is the incoming number.  That
\* holds for a sender that was the stored one earlier, too.
C14_SenderChange ==
    [][ (IsReceived /\ SenderChanges) =>
            /\ lastSenderUUID' = observed'.senderUUID
            /\ numReceived' = 1
            /\ numUnreasonable' = 0
            /\ numEarly' = 0
            /\ numLate' = 0
            /\ numLost' = 0
            /\ numRecovered' = 0
            /\ numDuplicate' = 0
            /\ missingSet' = {}
            /\ lastReceived' = observed'.incoming
      ]_vars

\* C14 witness: sender X, replaced by Y earlier, sent again after Y had
\* sent two packets
C14_Witness ==
    /\ observed.op = "received"
    /\ observed.senderUUID = "X"
    /\ observed.prevSenderUUID = "Y"
    /\ observed.prevReceived >= 2
    /\ lastSenderUUID = "X"
    /\ numReceived = 1

\* C15: the first packet after construction or reset is on time whatever
\* its number: afterwards _numReceived is 1, _lastReceived is the incoming
\* number, the other counters are 0 and the missing set is empty.
C15_FirstIsOnTime ==
    [][ (IsReceived /\ numReceived = 0) =>
            /\ numReceived' = 1
            /\ lastReceived' = observed'.incoming
            /\ numUnreasonable' = 0
            /\ numEarly' = 0
            /\ numLate' = 0
            /\ numLost' = 0
            /\ numRecovered' = 0
            /\ numDuplicate' = 0
            /\ missingSet' = {}
      ]_vars

\* C15 witness: the first packet after a call of reset, from the sender of
\* the packets before the reset
C15_Witness ==
    /\ observed.op = "received"
    /\ observed.n >= 3
    /\ observed.prevReceived = 0
    /\ observed.prevSenderUUID = observed.senderUUID
    /\ numReceived = 1
    /\ lastReceived = observed.incoming

\* the counter of the sender's stream before the step: 0 when the sender changes
InStream(counter) == IF SenderChanges THEN 0 ELSE counter

\* C16: the branch taken depends only on d = (incoming - expected) mod
\* 65536: d = 0 is on time, 1 <= d <= MAX_REASONABLE_SEQUENCE_GAP is early,
\* 65536 - MAX_REASONABLE_SEQUENCE_GAP <= d <= 65535 is late, every other d
\* is unreasonable; each call adds 1 to the counter of its branch and to no
\* other of _numEarly, _numLate, _numUnreasonable.
C16_ClassifiedByRingOffset ==
    [][ IsReceived =>
            <<numEarly' - InStream(numEarly), numLate' - InStream(numLate),
              numUnreasonable' - InStream(numUnreasonable)>> =
                IF StepOffset = 0 THEN <<0, 0, 0>>
                ELSE IF StepOffset <= MAX_REASONABLE_SEQUENCE_GAP THEN <<1, 0, 0>>
                ELSE IF StepOffset >= UINT16_RANGE - MAX_REASONABLE_SEQUENCE_GAP
                THEN <<0, 1, 0>>
                ELSE <<0, 0, 1>>
      ]_vars

\* C16 witness: 65535, then a number early across the rollover
C16_Witness ==
    /\ observed.op = "received"
    /\ observed.n = 2
    /\ observed.expected = 0
    /\ observed.incoming = MAX_REASONABLE_SEQUENCE_GAP
    /\ numEarly = 1
    /\ numUnreasonable = 0
    /\ numLost = MAX_REASONABLE_SEQUENCE_GAP

\* C17: while all packets since construction came from one sender, each
\* with the number after the one before (from any start, also across
\* 65535 -> 0), _numReceived is their number, the other six counters are 0
\* and the missing set is empty.
C17_InOrderNoLoss ==
    observed.inOrder =>
        /\ numReceived = observed.n
        /\ numUnreasonable = 0
        /\ numEarly = 0
        /\ numLate = 0
        /\ numLost = 0
        /\ numRecovered = 0
        /\ numDuplicate = 0
        /\ missingSet = {}

\* C17 witness: MaxObserved packets in order that ran across 65535 -> 0
C17_Witness ==
    /\ observed.inOrder
    /\ observed.n = MaxObserved
    /\ lastReceived < MaxObserved - 1
    /\ lastSenderUUID = "X"

\* C18: a pruning keeps of the missing set (the skipped numbers of the call
\* included) the numbers at most MAX_REASONABLE_SEQUENCE_GAP behind
\* _lastReceived on the ring and removes all others, whether or not
\* _lastReceived - MAX_REASONABLE_SEQUENCE_GAP is negative.
C18_PruneKeepsRecent ==
    [][ IsPruningStep =>
            missingSet' =
                { m \in missingSet \cup StepSkipped :
                    RingDistance(observed'.incoming, m) <= MAX_REASONABLE_SEQUENCE_GAP }
      ]_vars

\* C18 witness: a pruning with _lastReceived below MAX_REASONABLE_SEQUENCE_GAP
\* that removed a number and kept one
C18_Witness ==
    /\ observed.op = "received"
    /\ observed.pruned
    /\ lastReceived < MAX_REASONABLE_SEQUENCE_GAP
    /\ numRecovered = 0
    /\ numLost > Cardinality(missingSet)
    /\ missingSet # {}

\* C19: a call that prunes changes, beyond what the early branch does
\* (_numReceived and _numEarly one more, _numLost more by the gap,
\* _lastReceived the incoming number, the skipped numbers inserted), only
\* the missing set, by removing numbers: _numLost is not decreased for
\* them, and _numUnreasonable, _numLate, _numRecovered, _numDuplicate and
\* the sender are unchanged.
C19_PruneOnlyMissingSet ==
    [][ IsPruningStep =>
            /\ numLost' = numLost + StepsAhead
            /\ numReceived' = numReceived + 1
            /\ numEarly' = numEarly + 1
            /\ lastReceived' = observed'.incoming
            /\ missingSet' \subseteq (missingSet \cup StepSkipped)
            /\ UNCHANGED <<numUnreasonable, numLate, numRecovered, numDuplicate,
                           lastSenderUUID>>
      ]_vars

\* C19 witness: a pruning with _lastReceived at or above
\* MAX_REASONABLE_SEQUENCE_GAP after which _numLost still counts the
\* numbers that were removed
C19_Witness ==
    /\ observed.op = "received"
    /\ observed.pruned
    /\ lastReceived >= MAX_REASONABLE_SEQUENCE_GAP
    /\ numRecovered = 0
    /\ numLost > Cardinality(missingSet)

\* C20: an early packet never skips a number that is already in the missing
\* set, so that it adds to the missing set as many numbers as to _numLost;
\* hence, when _numLost was the size of the missing set before an early
\* call that does not prune, it is the size of the missing set after it.
C20_NoDoubleCount ==
    [][ (IsReceivedInStream /\ StepsAhead \in 1..MAX_REASONABLE_SEQUENCE_GAP) =>
            /\ StepSkipped \cap missingSet = {}
            /\ (numLost = Cardinality(missingSet) /\ ~IsPruningStep) =>
                  numLost' = Cardinality(missingSet')
      ]_vars

\* C21: _lastReceived is never a member of the missing set (a number that
\* was observed on time or early is not listed as missing).
C21_LastReceivedNotMissing == lastReceived \notin missingSet

\* C22: the seven counters are never negative; in particular _numLost is
\* never below zero, whatever calls of sequenceNumberReceived and reset are
\* made.
C22_CountersNonNegative ==
    /\ numReceived >= 0
    /\ numUnreasonable >= 0
    /\ numEarly >= 0
    /\ numLate >= 0
    /\ numLost >= 0
    /\ numRecovered >= 0
    /\ numDuplicate >= 0

\* C22 witness: the late branch took _numLost back down to zero, and the
\* same number arrived once more
C22_Witness ==
    /\ observed.op = "received"
    /\ observed.kind = "duplicate"
    /\ numRecovered >= 1
    /\ numLost = 0
    /\ numLate >= 2

\* the step is a call of sequenceNumberReceived by the sender of the last
\* call: no reset happens in it
IsReceivedNoReset == IsReceived /\ ~SenderChanges

\* C23 as stated: in a call of sequenceNumberReceived that does not reset,
\* none of the seven counters decreases.
C23_AllMonotonic ==
    [][ IsReceivedNoReset =>
            /\ numReceived' >= numReceived
            /\ numUnreasonable' >= numUnreasonable
            /\ numEarly' >= numEarly
            /\ numLate' >= numLate
            /\ numLost' >= numLost
            /\ numRecovered' >= numRecovered
            /\ numDuplicate' >= numDuplicate
      ]_vars

\* C23: in a call of sequenceNumberReceived that does not reset, none of
\* _numReceived, _numUnreasonable, _numEarly, _numLate, _numRecovered,
\* _numDuplicate decreases; _numLost decreases only by 1 and only when the
\* packet is late and its number is taken out of the missing set, with
\* _numRecovered going up by 1.
C23_MonotonicButLost ==
    [][ IsReceivedNoReset =>
            /\ numReceived' >= numReceived
            /\ numUnreasonable' >= numUnreasonable
            /\ numEarly' >= numEarly
            /\ numLate' >= numLate
            /\ numRecovered' >= numRecovered
            /\ numDuplicate' >= numDuplicate
            /\ \/ numLost' >= numLost
               \/ /\ numLost' = numLost - 1
                  /\ numRecovered' = numRecovered + 1
                  /\ numLate' = numLate + 1
                  /\ observed'.incoming \in missingSet
                  /\ missingSet' = missingSet \ {observed'.incoming}
      ]_vars

\* C23 witness: _numLost went up by the early branch and came down by a
\* late packet, and is still above zero
C23_Witness ==
    /\ observed.op = "received"
    /\ observed.kind = "recovered"
    /\ numEarly >= 1
    /\ numRecovered >= 1
    /\ numLost >= 1

\* how far _lastReceived moves forward on the ring in the step
LastReceivedAdvance == (lastReceived' - lastReceived + UINT16_RANGE) % UINT16_RANGE

\* C24 as stated: every call of sequenceNumberReceived that does not reset
\* leaves _lastReceived unchanged or sets it to the incoming number, 1 to
\* MAX_REASONABLE_SEQUENCE_GAP + 1 ring steps ahead of the previous
\* _lastReceived.
C24_NeverBackward ==
    [][ IsReceivedNoReset =>
            \/ lastReceived' = lastReceived
            \/ /\ lastReceived' = observed'.incoming
               /\ LastReceivedAdvance \in 1..(MAX_REASONABLE_SEQUENCE_GAP + 1)
      ]_vars

\* C24: a call of sequenceNumberReceived by the same sender on a tracker
\* that has received since construction or reset leaves _lastReceived
\* unchanged (late, duplicate, unreasonable) or sets it to the incoming
\* number, 1 to MAX_REASONABLE_SEQUENCE_GAP + 1 ring steps ahead of the
\* previous _lastReceived (on time, early); the first call after
\* construction, reset or a change of sender sets _lastReceived to the
\* incoming number, whatever it is.
C24_ForwardInStream ==
    [][ /\ IsReceivedInStream =>
            \/ /\ lastReceived' = lastReceived
               /\ observed'.kind \in {"recovered", "duplicate", "unreasonable"}
            \/ /\ lastReceived' = observed'.incoming
               /\ LastReceivedAdvance \in 1..(MAX_REASONABLE_SEQUENCE_GAP + 1)
               /\ observed'.kind \in {"onTime", "early"}
        /\ (IsReceived /\ ~IsReceivedInStream) => lastReceived' = observed'.incoming
      ]_vars

\* C24 witness: an early packet moved _lastReceived forward across the
\* rollover by MAX_REASONABLE_SEQUENCE_GAP + 1
C24_Witness ==
    /\ observed.op = "received"
    /\ observed.kind = "early"
    /\ observed.prevReceived > 0
    /\ lastReceived = observed.incoming
    /\ observed.expected > lastReceived
    /\ (lastReceived - observed.expected + UINT16_RANGE) % UINT16_RANGE
         = MAX_REASONABLE_SEQUENCE_GAP

\* 16-bit values at both ends of the ring and around _lastReceived
GapProbes ==
    0..(MAX_REASONABLE_SEQUENCE_GAP + 1) \cup
    (UINT16_MAX - MAX_REASONABLE_SEQUENCE_GAP - 1)..UINT16_MAX \cup
    { ToUint16(lastReceived + e + UINT16_RANGE) :
        e \in (0 - MAX_REASONABLE_SEQUENCE_GAP - 1)..(MAX_REASONABLE_SEQUENCE_GAP + 1) }

\* C25: for 16-bit values a # b that are not rejected as unreasonable, the
\* corrected gap of (incoming = a, expected = b) is the negation of the
\* corrected gap of (incoming = b, expected = a), so that a is early
\* relative to b exactly when b is late relative to a; the reverse pair is
\* rejected exactly when the pair is.  This holds of the pair each call
\* classified and of every pair of probes.
C25_SignedGapAntisymmetric ==
    /\ \A a \in GapProbes, b \in GapProbes :
          a # b =>
            /\ Unreasonable(Abs(a - b)) <=> Unreasonable(Abs(b - a))
            /\ ~Unreasonable(Abs(a - b)) =>
                  /\ SignedGap(a, b) = 0 - SignedGap(b, a)
                  /\ SignedGap(a, b) > 0 <=> SignedGap(b, a) < 0
    /\ (observed.op = "received" /\ observed.kind \in {"early", "recovered", "duplicate"}) =>
          /\ SignedGap(observed.incoming, observed.expected)
               = 0 - SignedGap(observed.expected, observed.incoming)
          /\ observed.kind = "early" <=>
               SignedGap(observed.expected, observed.incoming) < 0

\* C25 witness: the call classified a pair with the rollover between its
\* numbers, the incoming one past it, as early by its corrected gap
C25_Witness ==
    /\ observed.op = "received"
    /\ observed.kind = "early"
    /\ observed.incoming < observed.expected
    /\ SignedGap(observed.incoming, observed.expected) = MAX_REASONABLE_SEQUENCE_GAP
    /\ SignedGap(observed.expected, observed.incoming) = 0 - MAX_REASONABLE_SEQUENCE_GAP

\* C26: the tracker that has received before expects the number after
\* _lastReceived on the ring, 0 after 65535; the history expects the number
\* after _newestSequenceNumber, 0 after 65535.  A stream that begins with 0
\* and in which each packet is the expected one is at (n - 1) mod 65536
\* after n packets: it passes every 16-bit value, and from each of them it
\* is back at that value 65536 packets later; its 65537th packet is 0 again.
C26_RingClosure ==
    [][ /\ IsReceivedInStream =>
              /\ observed'.expected = (lastReceived + 1) % 65536
              /\ lastReceived = 65535 => observed'.expected = 0
        /\ ExpectedSequenceNumber = (newestSequenceNumber + 1) % 65536
        /\ newestSequenceNumber = 65535 => ExpectedSequenceNumber = 0
        /\ (IsReceived /\ observed'.inOrder) =>
              /\ observed'.kind = "onTime"
              /\ lastReceived' = (observed'.n - 1) % 65536
              /\ observed'.n = 65537 => lastReceived' = 0
      ]_vars

\* C26 witness: the stream went once around the ring, each packet on time,
\* and its last packet, 0 after 65535, was the expected one
C26_Witness ==
    /\ observed.op = "received"
    /\ observed.inOrder
    /\ observed.n = UINT16_RANGE + 1
    /\ observed.kind = "onTime"
    /\ observed.expected = 0
    /\ lastReceived = 0
    /\ newestSequenceNumber = UINT16_MAX

\* the step is a call of reset
IsReset == observed'.op = "reset" /\ observed.op # "reset"

\* the record is the tracker as constructed, apart from the sender
IsFreshStats(st) ==
    /\ st.lastReceived = UINT16_MAX
    /\ st.missingSet = {}
    /\ st.numReceived = 0
    /\ st.numUnreasonable = 0
    /\ st.numEarly = 0
    /\ st.numLate = 0
    /\ st.numLost = 0
    /\ st.numRecovered = 0
    /\ st.numDuplicate = 0

\* C27: after a call of reset, and after the reset that a change of sender
\* makes before the packet is classified, _lastReceived is 65535, the
\* missing set is empty and the seven counters are zero: the tracker is as
\* constructed, apart from the sender.
C27_ResetRestoresFresh ==
    [][ /\ IsReset => IsFreshStats(Stats)'
        /\ (IsReceived /\ SenderChanges) =>
              IsFreshStats(SenderCheck(Stats, observed'.senderUUID))
      ]_vars

\* the numbers strictly between the expected and the incoming one, on the ring
StepStrictlyBetween ==
    { (NextSeq(lastReceived) + j) % UINT16_RANGE : j \in 1..(StepsAhead - 1) }

\* C28 as stated: an early packet adds to the missing set the numbers
\* strictly between expected and incoming: neither the expected nor the
\* incoming number is added.
C28_InsertsStrictlyBetween ==
    [][ (IsReceivedInStream /\ StepsAhead \in 1..MAX_REASONABLE_SEQUENCE_GAP) =>
            /\ StepStrictlyBetween \subseteq missingSet'
            /\ (missingSet' \ missingSet) \subseteq StepStrictlyBetween
      ]_vars

\* C28: an early packet adds to the missing set the numbers expected, ...,
\* incoming - 1 of the ring: the expected number is added, the incoming one
\* is not; pruning, if it follows, keeps them.
C28_InsertsFromExpected ==
    [][ (IsReceivedInStream /\ StepsAhead \in 1..MAX_REASONABLE_SEQUENCE_GAP) =>
            /\ NextSeq(lastReceived) \in missingSet'
            /\ StepStrictlyBetween \subseteq missingSet'
            /\ (missingSet' \ missingSet) \subseteq
                   ({NextSeq(lastReceived)} \cup StepStrictlyBetween)
            /\ observed'.incoming \notin (missingSet' \ missingSet)
            /\ ~IsPruningStep =>
                   missingSet' = missingSet \cup {NextSeq(lastReceived)}
                                            \cup StepStrictlyBetween
      ]_vars

\* C28 witness: an early packet skipped only the expected number, which is
\* now the one missing number
C28_Witness ==
    /\ observed.op = "received"
    /\ observed.kind = "early"
    /\ observed.incoming = NextSeq(observed.expected)
    /\ missingSet = {observed.expected}
    /\ numLost = 1

\* the step is a call of getPacket that found a packet
IsGetPacketHit == IsGetPacket /\ call'.ret # NULL

\* C29 as stated: on a hit, getPacket returns the packet in the slot
\* _numExistingPackets steps back from _newestPacketAt, wrapping to the top
\* of the ring when the index goes below zero.
C29_CountStepsBack ==
    [][ IsGetPacketHit =>
            call'.ret =
              sentPackets[ IF newestPacketAt - numExistingPackets < 0
                           THEN newestPacketAt - numExistingPackets + Size
                           ELSE newestPacketAt - numExistingPackets ]
      ]_vars

\* C29: on a hit, getPacket returns the packet in the slot d steps back from
\* _newestPacketAt, d being the ring distance of the sequence number behind
\* _newestSequenceNumber (d < _numExistingPackets), wrapping to the top of
\* the ring when the index goes below zero.
C29_DistanceStepsBack ==
    [][ IsGetPacketHit =>
            LET d == RingDistance(newestSequenceNumber, call'.sequenceNumber)
            IN  /\ d < numExistingPackets
                /\ call'.ret =
                     sentPackets[ IF newestPacketAt - d < 0
                                  THEN newestPacketAt - d + Size
                                  ELSE newestPacketAt - d ]
      ]_vars

\* C29 witness: a hit whose slot index wrapped to the top of the ring
C29_Witness ==
    /\ call.op = "getPacket"
    /\ call.ret \in Packets
    /\ RingDistance(newestSequenceNumber, call.sequenceNumber) > newestPacketAt
    /\ call.ret = sentPackets[newestPacketAt
                                - RingDistance(newestSequenceNumber, call.sequenceNumber)
                                + Size]

\* C30: in every state, also of a stream that goes around the ring more
\* than once, the missing set holds at most MAX_REASONABLE_SEQUENCE_GAP
\* numbers.
C30_MissingBounded == Cardinality(missingSet) <= MAX_REASONABLE_SEQUENCE_GAP

\* sequence numbers around _lastReceived, on the ring
NearLastReceived ==
    { ToUint16(lastReceived + e + UINT16_RANGE) :
        e \in (0 - MAX_REASONABLE_SEQUENCE_GAP - 2)..(MAX_REASONABLE_SEQUENCE_GAP + 2) }

\* C31: a late packet is counted as recovered only if its number is in the
\* missing set, and the call takes the number out; a number comes into the
\* missing set only by an early packet that skips it.  So after a late
\* packet n was counted as recovered, each further late packet n is counted
\* as duplicate, _numRecovered unchanged, until an early packet skips n
\* again; of two late packets n in a row at most one adds to _numRecovered.
C31_RecoveredOncePerInsertion ==
    [][ /\ (IsReceivedInStream /\ numRecovered' # numRecovered) =>
              /\ StepsBehind \in 1..MAX_REASONABLE_SEQUENCE_GAP
              /\ numRecovered' = numRecovered + 1
              /\ observed'.incoming \in missingSet
              /\ observed'.incoming \notin missingSet'
        /\ \A n \in NearLastReceived \cup missingSet' :
              (n \notin missingSet /\ n \in missingSet') =>
                  /\ IsReceivedInStream
                  /\ StepsAhead \in 1..MAX_REASONABLE_SEQUENCE_GAP
                  /\ n \in StepSkipped
        /\ ( /\ IsReceivedInStream
             /\ observed.op = "received"
             /\ observed.kind = "recovered"
             /\ observed'.incoming = observed.incoming ) =>
                  /\ numRecovered' = numRecovered
                  /\ numDuplicate' = numDuplicate + 1
      ]_vars

\* C31 witness: four calls of one sender: the first packet, an early one
\* that skipped one number, that number late (recovered), and that number
\* again (duplicate)
C31_Witness ==
    /\ observed.op = "received"
    /\ observed.kind = "duplicate"
    /\ observed.incoming = ToUint16(lastReceived - 1 + UINT16_RANGE)
    /\ numReceived = 4
    /\ numEarly = 1
    /\ numRecovered = 1
    /\ numDuplicate = 1
    /\ numLost = 0

\* C32: in every state _numLost is at least the size of the missing set.
C32_LostAtLeastMissing == numLost >= Cardinality(missingSet)

\* C32 witness: pruning has taken numbers out of the missing set that are
\* still counted in _numLost
C32_Witness ==
    /\ observed.op = "received"
    /\ observed.pruned
    /\ missingSet # {}
    /\ numLost > Cardinality(missingSet)

\* the calls since construction or reset that were on time, by the counters
OnTimeCount == numReceived - numUnreasonable - numEarly - numLate

\* C33: in every state _numLate = _numRecovered + _numDuplicate and
\* _numReceived >= _numUnreasonable + _numEarly + _numLate; the difference
\* counts the on-time packets: a call adds 1 to it when the incoming number
\* is the expected one and leaves it unchanged otherwise, and a reset makes
\* it zero.
C33_CounterIdentities ==
    [][ /\ numLate' = numRecovered' + numDuplicate'
        /\ OnTimeCount' >= 0
        /\ IsReceived =>
              OnTimeCount' = InStream(OnTimeCount) + (IF StepOffset = 0 THEN 1 ELSE 0)
        /\ IsReset => OnTimeCount' = 0
      ]_vars

\* C33 witness: packets of every kind but unreasonable were counted: one on
\* time, one early, one recovered, one duplicate
C33_Witness ==
    /\ observed.op = "received"
    /\ numReceived = 4
    /\ numEarly = 1
    /\ numLate = 2
    /\ numRecovered = 1
    /\ numDuplicate = 1
    /\ OnTimeCount = 1

\* C34: every call of sequenceNumberReceived adds 1 to _numReceived,
\* whatever branch it takes: to 0 when the sender changes (the call is the
\* first one counted after the reset it makes), to the value before
\* otherwise (0 right after a call of reset); a call of reset makes it 0.
C34_ReceivedCountsEveryCall ==
    [][ /\ IsReceived => numReceived' = InStream(numReceived) + 1
        /\ IsReset => numReceived' = 0
      ]_vars

\* C34 witness: four calls, the second by a new sender, the later ones an
\* unreasonable and a late packet: three calls since the reset
C34_Witness ==
    /\ observed.op = "received"
    /\ observed.n = 4
    /\ numReceived = 3
    /\ numUnreasonable = 1
    /\ numLate = 1

\* C35: the first call of sequenceNumberReceived after a call of reset, by
\* the sender the tracker holds, leaves the tracker with the fields that the
\* same call leaves a newly constructed tracker holding that sender with:
\* the seven counters, the missing set, _lastReceived and the sender are the
\* same, whatever _lastReceived was at the reset.  From equal fields the
\* later calls go the same way in both; one more call is compared here.
C35_ResetLikeFresh ==
    [][ (IsReceived /\ observed.op = "reset" /\ ~SenderChanges) =>
            LET fresh == SequenceNumberReceived(NewStats(lastSenderUUID),
                                                observed'.incoming,
                                                observed'.senderUUID)
            IN  /\ Stats' = fresh
                /\ \A e \in Offsets :
                      LET s == ToUint16(fresh.lastReceived + 1 + e + UINT16_RANGE)
                      IN  SequenceNumberReceived(Stats', s, observed'.senderUUID)
                            = SequenceNumberReceived(fresh, s, observed'.senderUUID)
      ]_vars

\* C35 witness: the sender's packet after a call of reset that followed
\* earlier calls: it was taken as on time and is the only one counted
C35_Witness ==
    /\ observed.op = "received"
    /\ observed.n >= 3
    /\ observed.prevReceived = 0
    /\ observed.prevSenderUUID = observed.senderUUID
    /\ observed.kind = "onTime"
    /\ observed.incoming # 0
    /\ lastReceived = observed.incoming
    /\ numReceived = 1
    /\ missingSet = {}

\* C36: whatever sequence numbers the packetSent calls were made with,
\* getPacket(s) that finds a packet, s being k behind
\* _newestSequenceNumber on the ring, returns the packet of the (k + 1)-th
\* most recent packetSent call.
C36_PacketByRecency ==
    \A s \in Probes :
        GetPacket(s) # NULL =>
            LET k == RingDistance(newestSequenceNumber, s)
            IN  /\ k < Len(sentLog)
                /\ GetPacket(s) = sentLog[Len(sentLog) - k].packet

\* C36 witness: after calls that were not consecutive, getPacket found the
\* packet of the call before the last, which was made with another
\* sequence number and another packet than the last
C36_Witness ==
    /\ ~Consecutive
    /\ call.op = "getPacket"
    /\ call.ret \in Packets
    /\ Len(sentLog) >= 2
    /\ RingDistance(newestSequenceNumber, call.sequenceNumber) = 1
    /\ sentLog[Len(sentLog) - 1].sequenceNumber # call.sequenceNumber
    /\ sentLog[Len(sentLog) - 1].packet = call.ret
    /\ sentLog[Len(sentLog)].packet # call.ret

\* C38: in every state of a history of size C >= 1, _newestPacketAt is in
\* 0..C-1; the first packetSent writes slot 1 mod C; for every sequence
\* number that getPacket finds, packetAt = _newestPacketAt - seqDiff, with
\* C added when negative, is in 0..C-1.
C38_IndicesInRange ==
    /\ Size >= 1
    /\ newestPacketAt \in 0..(Size - 1)
    /\ \A i \in 1..Len(sentLog) : sentLog[i].at \in 0..(Size - 1)
    /\ Len(sentLog) >= 1 => sentLog[1].at = 1 % Size
    /\ \A s \in Probes :
          LET seqDiff == RingDistance(newestSequenceNumber, s)
          IN  seqDiff < numExistingPackets =>
                /\ PacketAt(seqDiff) \in 0..(Size - 1)
                /\ PacketAt(seqDiff) =
                     IF newestPacketAt - seqDiff < 0
                     THEN newestPacketAt - seqDiff + Size
                     ELSE newestPacketAt - seqDiff

\* C38 witness: the write position has wrapped to slot 0 of a history of
\* more than one slot, and getPacket found a packet in the top slot
C38_Witness ==
    /\ Size >= 2
    /\ newestPacketAt = 0
    /\ Len(sentLog) >= Size
    /\ call.op = "getPacket"
    /\ call.ret \in Packets
    /\ RingDistance(newestSequenceNumber, call.sequenceNumber) = 1
    /\ PacketAt(1) = Size - 1

\* the values of the seven counters, the missing set, _lastReceived and the
\* sender that a tracker can hold
IsStats(st) ==
    /\ st.lastReceived \in 0..UINT16_MAX
    /\ \A m \in st.missingSet : m \in 0..UINT16_MAX
    /\ st.numReceived \in Nat
    /\ st.numUnreasonable \in Nat
    /\ st.numEarly \in Nat
    /\ st.numLate \in Nat
    /\ st.numLost \in Nat
    /\ st.numRecovered \in Nat
    /\ st.numDuplicate \in Nat
    /\ st.lastSenderUUID \in UUIDs

\* incoming numbers the tracker is probed with in each state
TrackerProbes == ObservedInputs \cup { 0, UINT16_RANGE \div 2 }

\* C37: no call fails.  In every state the fields of both objects hold
\* values of their kinds; sequenceNumberReceived takes one of its five
\* branches and gives such fields again for every probed 16-bit number and
\* every sender; packetSent writes a slot of the history (size >= 1) and
\* getPacket returns a packet that was sent or NULL for every probed number;
\* the last call returned: an unreasonable packet was counted, an
\* unexpected number passed to packetSent was stored, a miss returned NULL.
C37_NoFailure ==
    /\ IsStats(Stats)
    /\ \A incoming \in TrackerProbes, u \in UUIDs :
          /\ IsStats(SequenceNumberReceived(Stats, incoming, u))
          /\ Kind(SenderCheck(Stats, u), incoming)
               \in {"onTime", "unreasonable", "early", "recovered", "duplicate"}
    /\ observed.kind \in {"none", "onTime", "unreasonable", "early", "recovered", "duplicate"}
    /\ Size >= 1
    /\ newestPacketAt \in 0..(Size - 1)
    /\ NextPacketAt(newestPacketAt) \in 0..(Size - 1)
    /\ numExistingPackets \in 0..Size
    /\ newestSequenceNumber \in 0..UINT16_MAX
    /\ \A slot \in 0..(Size - 1) : sentPackets[slot] \in Packets \cup {EmptyPacket}
    /\ \A s \in Probes :
          /\ SeqDiff(s) < numExistingPackets => PacketAt(SeqDiff(s)) \in 0..(Size - 1)
          /\ GetPacket(s) \in Packets \cup {NULL}
    /\ call.ret \in Packets \cup {NULL}
    /\ \A i \in 1..Len(sentLog) :
          sentLog[i].unexpected => sentLog[i].at \in 0..(Size - 1)

\* C37 witness: an unreasonable packet was counted and ignored, packetSent
\* was called with an unexpected number, and getPacket missed
C37_Witness ==
    /\ observed.op = "received"
    /\ observed.kind = "unreasonable"
    /\ numUnreasonable = 1
    /\ \E i \in 1..Len(sentLog) : sentLog[i].unexpected
    /\ call.op = "getPacket"
    /\ call.ret = NULL

==========================================================================
